---- MODULE Spec2Model ----
(***************************************************************************)
(* Model of backyard_sun_map: the occlusion engine (geometry.py), the sun   *)
(* direction resolver and time series (solar.py), the scene loader          *)
(* (scene.py) and the exposure accumulator (simulation.py).                 *)
(*                                                                          *)
(* Arithmetic is exact.  Lengths are integers in units of 0.82 ft (the      *)
(* default grid resolution), so the default padding of 6.56 ft is 8 units.  *)
(* Footprints are axis-aligned rectangles with integer corners.  A ray      *)
(* parameter s is a fraction <<num, den>> with den > 0.  A float test       *)
(* abs(v) < 1e-12 is the exact test v = 0.                                  *)
(***************************************************************************)
EXTENDS Integers, Sequences, FiniteSets, TLC

VARIABLES
    pc,         \* position in the operation being run
    args,       \* the arguments of the operation (read-only)
    ret,        \* its return value, None until it returns or when it raises
    x_grid,     \* run_simulation: grid x coordinates
    y_grid,     \* run_simulation: grid y coordinates
    exposure,   \* run_simulation: minutes of sun per (yi, xi)
    times,      \* run_simulation: the time series
    positions,  \* run_simulation: one SunPosition per timestamp
    idx,        \* run_simulation: number of positions the loop has consumed
    calls,      \* run_simulation: number of is_point_shaded calls made so far
    share,      \* timestamp partition: the worker that owns each position
    partial,    \* timestamp partition: each worker's partial exposure grid
    pending     \* timestamp partition: the positions not yet processed

simvars == <<x_grid, y_grid, exposure, times, positions, idx, calls>>

parvars == <<share, partial, pending>>

vars == <<pc, args, ret, simvars, parvars>>

\* ------------------------------------------------------------------ bounds
MaxCoord == 4
MaxObjs == 2
NumWorkers == 2

\* --------------------------------------------------------------- utilities
None == <<>>

Abs(v) == IF v < 0 THEN -v ELSE v

Sgn(v) == IF v < 0 THEN -1 ELSE IF v > 0 THEN 1 ELSE 0

NonZero(v) == IF v = 0 THEN 1 ELSE Abs(v)

\* ------------------------------------------------- geometry.py: footprints
\* shapely Polygon of an axis-aligned rectangular footprint
Rect(x0, y0, x1, y1) == [minx |-> x0, miny |-> y0, maxx |-> x1, maxy |-> y1]

SceneObject(t, h, g) == [type |-> t, height_ft |-> h, geometry |-> g]

\* geom.contains(Point): the point is in the interior (boundary excluded)
Contains(geom, p) ==
    /\ geom.minx < p[1] /\ p[1] < geom.maxx
    /\ geom.miny < p[2] /\ p[2] < geom.maxy

\* the point is on geom.boundary
OnBoundary(geom, p) ==
    /\ geom.minx <= p[1] /\ p[1] <= geom.maxx
    /\ geom.miny <= p[2] /\ p[2] <= geom.maxy
    /\ ~Contains(geom, p)

MaxDist == 1000000

\* boundary.intersection(ray): the points the code collects from it, each
\* coordinate multiplied by den = NonZero(dx) * NonZero(dy) so that it is an
\* integer.  A crossing of an edge is one point; an overlap with an edge is a
\* LineString whose coords are its two ends (the origin or a corner).
BoundaryIntersection(geom, origin, direction) ==
    LET ox == origin[1]
        oy == origin[2]
        dx == direction[1]
        dy == direction[2]
        den == NonZero(dx) * NonZero(dy)
        onVertical ==
            IF dx = 0 THEN {}
            ELSE { <<den * a, den * oy + (a - ox) * dy * Sgn(dx) * NonZero(dy)>> :
                     a \in { e \in {geom.minx, geom.maxx} :
                               /\ (e - ox) * Sgn(dx) >= 0
                               /\ Abs(e - ox) <= MaxDist * Abs(dx) } }
        onHorizontal ==
            IF dy = 0 THEN {}
            ELSE { <<den * ox + (b - oy) * dx * Sgn(dy) * NonZero(dx), den * b>> :
                     b \in { e \in {geom.miny, geom.maxy} :
                               /\ (e - oy) * Sgn(dy) >= 0
                               /\ Abs(e - oy) <= MaxDist * Abs(dy) } }
        atOrigin == IF OnBoundary(geom, origin) THEN {<<den * ox, den * oy>>} ELSE {}
    IN  { p \in onVertical \cup onHorizontal \cup atOrigin :
            /\ den * geom.minx <= p[1] /\ p[1] <= den * geom.maxx
            /\ den * geom.miny <= p[2] /\ p[2] <= den * geom.maxy }

\* faulty variant: the greatest s >= 0 is kept instead of the least
BestDistance_Farthest(points, origin, direction) ==
    LET ox == origin[1]
        oy == origin[2]
        dx == direction[1]
        dy == direction[2]
        den == NonZero(dx) * NonZero(dy)
        sNum(p) == IF Abs(dx) >= Abs(dy)
                   THEN (p[1] - den * ox) * Sgn(dx)
                   ELSE (p[2] - den * oy) * Sgn(dy)
        sDen == IF Abs(dx) >= Abs(dy) THEN den * Abs(dx) ELSE den * Abs(dy)
        cand == { sNum(p) : p \in { q \in points : sNum(q) >= 0 } }
    IN  IF cand = {} THEN None
        ELSE <<CHOOSE n \in cand : \A m \in cand : n >= m, sDen>>

\* the loop of lines 61-75: s of each point on the dominant axis, the least
\* s >= 0 kept.  All s share the denominator, so numerators are compared.
BestDistance(points, origin, direction) ==
    LET ox == origin[1]
        oy == origin[2]
        dx == direction[1]
        dy == direction[2]
        den == NonZero(dx) * NonZero(dy)
        sNum(p) == IF Abs(dx) >= Abs(dy)
                   THEN (p[1] - den * ox) * Sgn(dx)
                   ELSE (p[2] - den * oy) * Sgn(dy)
        sDen == IF Abs(dx) >= Abs(dy) THEN den * Abs(dx) ELSE den * Abs(dy)
        cand == { sNum(p) : p \in { q \in points : sNum(q) >= 0 } }
    IN  IF cand = {} THEN None
        ELSE <<CHOOSE n \in cand : \A m \in cand : n <= m, sDen>>

\* faulty variant of the zenith branch: the containment test is dropped
ray_intersection_distance_NoContains(geom, origin, direction) ==
    IF direction[1] = 0 /\ direction[2] = 0
    THEN <<0, 1>>
    ELSE BestDistance(BoundaryIntersection(geom, origin, direction), origin, direction)

ray_intersection_distance(geom, origin, direction) ==
    IF direction[1] = 0 /\ direction[2] = 0
    THEN IF Contains(geom, origin) THEN <<0, 1>> ELSE None
    ELSE BestDistance(BoundaryIntersection(geom, origin, direction), origin, direction)

\* faulty variant: the quick test of line 94 is missing
ObjectShades_NoQuickTest(obj, origin, z_val, sun_dir) ==
    LET s == ray_intersection_distance(obj.geometry, origin,
                                       <<-sun_dir[1], -sun_dir[2]>>)
    IN  /\ s # None
        /\ 0 <= z_val * s[2] - s[1] * sun_dir[3]
        /\ z_val * s[2] - s[1] * sun_dir[3] <= obj.height_ft * s[2]

\* lines 93-101 for one object: TRUE when the loop returns True at obj
ObjectShades(obj, origin, z_val, sun_dir) ==
    \/ Contains(obj.geometry, origin) /\ obj.height_ft >= z_val
    \/ LET s == ray_intersection_distance(obj.geometry, origin,
                                          <<-sun_dir[1], -sun_dir[2]>>)
       IN  /\ s # None
           \* 0 <= z_val - s * dz <= obj.height_ft, multiplied by s[2] > 0
           /\ 0 <= z_val * s[2] - s[1] * sun_dir[3]
           /\ z_val * s[2] - s[1] * sun_dir[3] <= obj.height_ft * s[2]

RECURSIVE ScanObjects(_, _, _, _, _)
ScanObjects(objects, i, origin, z_val, sun_dir) ==
    IF i > Len(objects) THEN FALSE
    ELSE IF ObjectShades(objects[i], origin, z_val, sun_dir) THEN TRUE
    ELSE ScanObjects(objects, i + 1, origin, z_val, sun_dir)

\* faulty variant: the loop falls through to `return True`
is_point_shaded_FallThroughShaded(x, y, z_ft, sun_dir, objects) ==
    IF sun_dir[3] <= 0 THEN TRUE
    ELSE ScanObjects(objects, 1, <<x, y>>, z_ft, sun_dir) \/ TRUE

is_point_shaded(x, y, z_ft, sun_dir, objects) ==
    IF sun_dir[3] <= 0 THEN TRUE
    ELSE ScanObjects(objects, 1, <<x, y>>, z_ft, sun_dir)

\* ------------------------------------------------------------ input ranges
Footprints == { Rect(1, 1, MaxCoord - 1, MaxCoord - 1), Rect(MaxCoord - 2, 0, MaxCoord, 2) }

Heights == {1, 3}

EvalHeights == {0, 2}

Occluders == { SceneObject("structure", h, g) : h \in Heights, g \in Footprints }

ObjectLists == UNION { [1..n -> Occluders] : n \in 0..MaxObjs }

Horizontals == { <<0, 0>>, <<1, 0>>, <<-1, 0>>, <<0, 1>>, <<0, -1>>,
                 <<1, 1>>, <<-1, -1>>, <<2, 1>>, <<-1, 2>>, <<-2, -1>>, <<1, -2>> }

SunDirs == { <<h[1], h[2], dz>> : h \in Horizontals, dz \in 0..2 }

\* ---------------------------------------- is_point_shaded as one operation
InitShade ==
    /\ pc = "call"
    /\ args \in [x : 0..MaxCoord, y : 0..MaxCoord, z_ft : EvalHeights,
                 sun_dir : SunDirs, objects : ObjectLists]
    /\ ret = None
    /\ x_grid = None /\ y_grid = None /\ exposure = None /\ times = None
    /\ positions = None /\ idx = 0 /\ calls = 0
    /\ share = None /\ partial = None /\ pending = {}

CallIsPointShaded ==
    /\ pc = "call"
    /\ ret' = <<is_point_shaded(args.x, args.y, args.z_ft, args.sun_dir, args.objects)>>
    /\ pc' = "returned"
    /\ UNCHANGED <<args, simvars, parvars>>

NextShade == CallIsPointShaded

SpecShade == InitShade /\ [][NextShade]_vars

\* ------------------------------------------------ solar.py: sun direction
\* np.sin of an angle given in degrees, in fifths.  The angles of the model are
\* those whose sine and cosine are rational with denominator 5: the multiples
\* of 90 degrees and those plus atan(3/4) = 36.87 or atan(4/3) = 53.13 degrees,
\* written by their rounded degrees (37, 53, 127, ...).
Sin5(deg) ==
    LET a == deg % 360
    IN  CASE a = 0 -> 0    [] a = 37 -> 3    [] a = 53 -> 4
          [] a = 90 -> 5   [] a = 127 -> 4   [] a = 143 -> 3
          [] a = 180 -> 0  [] a = 217 -> -3  [] a = 233 -> -4
          [] a = 270 -> -5 [] a = 307 -> -4  [] a = 323 -> -3

\* np.cos, in fifths
Cos5(deg) == Sin5(deg + 90)

\* faulty variant: the east and north components of the local x axis are swapped
sun_vector_local_SwappedXAxis(alt_deg, az_deg, orientation_deg) ==
    LET dx_world == Sin5(az_deg) * Cos5(alt_deg)
        dy_world == Cos5(az_deg) * Cos5(alt_deg)
        dz_world == Sin5(alt_deg)
        x_dir_east == Cos5(orientation_deg)
        x_dir_north == Sin5(orientation_deg)
        y_dir_east == Sin5(orientation_deg - 90)
        y_dir_north == Cos5(orientation_deg - 90)
    IN  << dx_world * x_dir_east + dy_world * x_dir_north,
           dx_world * y_dir_east + dy_world * y_dir_north,
           5 * 5 * dz_world >>

\* the returned (dx, dy, dz) in units of 1/125: dz_world is multiplied by 25
\* to share the denominator of the two horizontal components
sun_vector_local(alt_deg, az_deg, orientation_deg) ==
    LET dx_world == Sin5(az_deg) * Cos5(alt_deg)
        dy_world == Cos5(az_deg) * Cos5(alt_deg)
        dz_world == Sin5(alt_deg)
        x_dir_east == Sin5(orientation_deg)
        x_dir_north == Cos5(orientation_deg)
        y_dir_east == Sin5(orientation_deg - 90)
        y_dir_north == Cos5(orientation_deg - 90)
    IN  << dx_world * x_dir_east + dy_world * x_dir_north,
           dx_world * y_dir_east + dy_world * y_dir_north,
           5 * 5 * dz_world >>

Angles == { 90 * k + o : k \in 0..3, o \in {0, 37, 53} }

Altitudes == {-37, 0, 37, 53, 90}

InitSun ==
    /\ pc = "call"
    /\ args \in [alt_deg : Altitudes, az_deg : Angles, orientation_deg : Angles]
    /\ ret = None
    /\ x_grid = None /\ y_grid = None /\ exposure = None /\ times = None
    /\ positions = None /\ idx = 0 /\ calls = 0
    /\ share = None /\ partial = None /\ pending = {}

CallSunVectorLocal ==
    /\ pc = "call"
    /\ ret' = <<sun_vector_local(args.alt_deg, args.az_deg, args.orientation_deg)>>
    /\ pc' = "returned"
    /\ UNCHANGED <<args, simvars, parvars>>

NextSun == CallSunVectorLocal

SpecSun == InitSun /\ [][NextSun]_vars

\* ----------------------------------------------- scene.py: resolved_bounds
\* the default of default_padding_ft, 6.56 ft, in units of 0.82 ft
DefaultPadding == 8

SetMin(S) == CHOOSE m \in S : \A v \in S : m <= v

SetMax(S) == CHOOSE m \in S : \A v \in S : v <= m

\* Bounds: each of x_min .. y_max is None or <<value>>
Bounds(x0, x1, y0, y1, pad) ==
    [x_min |-> x0, x_max |-> x1, y_min |-> y0, y_max |-> y1, padding_ft |-> pad]

\* Scene (the location is only read by the solar position provider);
\* bounds is None or <<Bounds>>
Scene(orientation, objects, bounds) ==
    [orientation_deg_cw_from_north |-> orientation, objects |-> objects, bounds |-> bounds]

\* Scene.resolved_bounds: [raised |-> TRUE] for a ValueError, else the tuple
resolved_bounds(scene) ==
    LET has == scene.bounds # None
        b == scene.bounds[1]
        padding == IF has THEN b.padding_ft ELSE DefaultPadding
        objs == scene.objects
        xs == UNION { {objs[i].geometry.minx, objs[i].geometry.maxx} : i \in 1..Len(objs) }
        ys == UNION { {objs[i].geometry.miny, objs[i].geometry.maxy} : i \in 1..Len(objs) }
    IN  IF Len(objs) = 0
        THEN IF ~has THEN [raised |-> TRUE]
             ELSE IF \E v \in {b.x_min, b.x_max, b.y_min, b.y_max} : v = None
             THEN [raised |-> TRUE]
             ELSE [raised |-> FALSE,
                   value |-> <<b.x_min[1], b.x_max[1], b.y_min[1], b.y_max[1]>>]
        ELSE [raised |-> FALSE,
              value |-> << IF has /\ b.x_min # None THEN b.x_min[1] ELSE SetMin(xs) - padding,
                           IF has /\ b.x_max # None THEN b.x_max[1] ELSE SetMax(xs) + padding,
                           IF has /\ b.y_min # None THEN b.y_min[1] ELSE SetMin(ys) - padding,
                           IF has /\ b.y_max # None THEN b.y_max[1] ELSE SetMax(ys) + padding >>]

\* ------------------------------------------------ solar.py: generate_times
\* faulty variant: the start > end test is missing, the while loop then runs 0 times
generate_times_NoOrderCheck(start_dt, end_dt, step_minutes) ==
    IF step_minutes <= 0 THEN [raised |-> TRUE]
    ELSE [raised |-> FALSE,
          value |-> IF start_dt > end_dt THEN <<>>
                    ELSE [i \in 1..((end_dt - start_dt) \div step_minutes + 1) |->
                            start_dt + (i - 1) * step_minutes]]

\* datetimes are minutes since an epoch in the scene's timezone
generate_times(start_dt, end_dt, step_minutes) ==
    IF step_minutes <= 0 THEN [raised |-> TRUE]
    ELSE IF start_dt > end_dt THEN [raised |-> TRUE]
    ELSE [raised |-> FALSE,
          value |-> [i \in 1..((end_dt - start_dt) \div step_minutes + 1) |->
                       start_dt + (i - 1) * step_minutes]]

SunPosition(alt, az) == [alt_deg |-> alt, az_deg |-> az]

\* ------------------------------------------- simulation.py: run_simulation
\* np.arange(start, stop, step) for step > 0
Arange(start, stop, step) ==
    [i \in 1..(IF stop > start THEN (stop - start - 1) \div step + 1 ELSE 0) |->
       start + (i - 1) * step]

\* np.zeros((len(y_grid), len(x_grid)))
Zeros(ny, nx) == [c \in (1..ny) \X (1..nx) |-> 0]

\* faulty variant: the increment is applied twice per sunlit cell
LoopBody_DoubleCount(exp, position, scene, height_ft, xg, yg, step_minutes) ==
    IF position.alt_deg <= 0 THEN exp
    ELSE LET sun_dir == sun_vector_local(position.alt_deg, position.az_deg,
                                         scene.orientation_deg_cw_from_north)
         IN  [c \in DOMAIN exp |->
                IF ~is_point_shaded(xg[c[2]], yg[c[1]], height_ft, sun_dir, scene.objects)
                THEN exp[c] + step_minutes + step_minutes ELSE exp[c]]

\* faulty variant: the cell is assigned instead of incremented
LoopBody_Assign(exp, position, scene, height_ft, xg, yg, step_minutes) ==
    IF position.alt_deg <= 0 THEN exp
    ELSE LET sun_dir == sun_vector_local(position.alt_deg, position.az_deg,
                                         scene.orientation_deg_cw_from_north)
         IN  [c \in DOMAIN exp |->
                IF ~is_point_shaded(xg[c[2]], yg[c[1]], height_ft, sun_dir, scene.objects)
                THEN step_minutes ELSE exp[c]]

\* one iteration of `for position in positions` (lines 32-41): the new grid
LoopBody(exp, position, scene, height_ft, xg, yg, step_minutes) ==
    IF position.alt_deg <= 0 THEN exp
    ELSE LET sun_dir == sun_vector_local(position.alt_deg, position.az_deg,
                                         scene.orientation_deg_cw_from_north)
         IN  [c \in DOMAIN exp |->
                IF ~is_point_shaded(xg[c[2]], yg[c[1]], height_ft, sun_dir, scene.objects)
                THEN exp[c] + step_minutes ELSE exp[c]]

\* inputs of run_simulation
SimObjectLists ==
    { l \in ObjectLists : \A i, j \in 1..Len(l) : i < j => l[i].geometry # l[j].geometry }

BoundsChoices ==
    { None,
      <<Bounds(<<0>>, <<MaxCoord>>, <<0>>, <<MaxCoord>>, DefaultPadding)>>,
      <<Bounds(<<MaxCoord>>, <<0>>, <<0>>, <<MaxCoord>>, DefaultPadding)>>,
      <<Bounds(<<0>>, <<MaxCoord>>, <<MaxCoord + 1>>, <<0>>, DefaultPadding)>>,
      <<Bounds(None, <<MaxCoord>>, <<0>>, None, 1)>> }

Scenes == { Scene(o, l, b) : o \in {0, 37}, l \in SimObjectLists, b \in BoundsChoices }

GridResolutions == {2, 4}

Steps == {-15, 0, 15}

Instants == {0, 30}

SunPositions == { SunPosition(-37, 0), SunPosition(0, 90), SunPosition(37, 90),
                  SunPosition(90, 180) }

Init ==
    /\ pc = "setup"
    /\ args \in [scene : Scenes, height_ft : EvalHeights, grid_res_ft : GridResolutions,
                 start : Instants, end : Instants, step_minutes : Steps]
    /\ ret = None
    /\ x_grid = None /\ y_grid = None /\ exposure = None /\ times = None
    /\ positions = None /\ idx = 0 /\ calls = 0
    /\ share = None /\ partial = None /\ pending = {}

\* lines 22-27: build_objects, resolved_bounds, the grids, the zeroed exposure
Setup ==
    /\ pc = "setup"
    /\ LET rb == resolved_bounds(args.scene)
       IN  IF rb.raised
           THEN /\ pc' = "raised"
                /\ UNCHANGED <<x_grid, y_grid, exposure>>
           ELSE LET xg == Arange(rb.value[1], rb.value[2] + args.grid_res_ft, args.grid_res_ft)
                    yg == Arange(rb.value[3], rb.value[4] + args.grid_res_ft, args.grid_res_ft)
                IN  /\ x_grid' = xg
                    /\ y_grid' = yg
                    /\ exposure' = Zeros(Len(yg), Len(xg))
                    /\ pc' = "times"
    /\ UNCHANGED <<args, ret, times, positions, idx, calls, parvars>>

\* line 29: generate_times
GenerateTimes ==
    /\ pc = "times"
    /\ LET gt == generate_times(args.start, args.end, args.step_minutes)
       IN  IF gt.raised
           THEN pc' = "raised" /\ UNCHANGED times
           ELSE pc' = "positions" /\ times' = gt.value
    /\ UNCHANGED <<args, ret, x_grid, y_grid, exposure, positions, idx, calls, parvars>>

\* line 30: compute_solar_positions, one SunPosition per timestamp from the
\* provider (pvlib or pysolar)
ComputeSolarPositions ==
    /\ pc = "positions"
    /\ positions' \in [1..Len(times) -> SunPositions]
    /\ pc' = "loop"
    /\ UNCHANGED <<args, ret, x_grid, y_grid, exposure, times, idx, calls, parvars>>

\* line 30: neither provider can be imported, RuntimeError
ProviderUnavailable ==
    /\ pc = "positions"
    /\ pc' = "raised"
    /\ UNCHANGED <<args, ret, simvars, parvars>>

\* lines 32-41: one position of the loop
ProcessPosition ==
    /\ pc = "loop"
    /\ idx < Len(positions)
    /\ exposure' = LoopBody(exposure, positions[idx + 1], args.scene, args.height_ft,
                            x_grid, y_grid, args.step_minutes)
    /\ calls' = IF positions[idx + 1].alt_deg <= 0 THEN calls
                ELSE calls + Len(y_grid) * Len(x_grid)
    /\ idx' = idx + 1
    /\ UNCHANGED <<pc, args, ret, x_grid, y_grid, times, positions, parvars>>

\* lines 43-48: the loop is over, the grids are returned
Return ==
    /\ pc = "loop"
    /\ idx = Len(positions)
    /\ ret' = <<x_grid, y_grid, exposure>>
    /\ pc' = "done"
    /\ UNCHANGED <<args, simvars, parvars>>

Next ==
    \/ Setup
    \/ GenerateTimes
    \/ ComputeSolarPositions
    \/ ProviderUnavailable
    \/ ProcessPosition
    \/ Return

Spec == Init /\ [][Next]_vars

\* ------------------------------- the loop of run_simulation, partitioned
\* The positions of one run are dealt to NumWorkers workers.  Each worker
\* runs the loop body of run_simulation on its own zeroed grid, one of its
\* positions at a time and in any order; the partial grids are summed once
\* no position is pending.
Workers == 1..NumWorkers

RECURSIVE SequentialExposure(_, _, _, _, _, _)
\* the grid run_simulation returns: the loop body over poss[i..] in order
SequentialExposure(exp, poss, i, a, xg, yg) ==
    IF i > Len(poss) THEN exp
    ELSE SequentialExposure(
             LoopBody(exp, poss[i], a.scene, a.height_ft, xg, yg, a.step_minutes),
             poss, i + 1, a, xg, yg)

RECURSIVE SumGrids(_, _)
SumGrids(grids, w) ==
    IF w = 0 THEN [c \in DOMAIN grids[1] |-> 0]
    ELSE [c \in DOMAIN grids[1] |-> SumGrids(grids, w - 1)[c] + grids[w][c]]

ParArgs ==
    { [scene |-> Scene(37, l, <<Bounds(<<0>>, <<MaxCoord>>, <<0>>, <<MaxCoord>>,
                                       DefaultPadding)>>),
       height_ft |-> h, grid_res_ft |-> 2, start |-> 0, end |-> 30, step_minutes |-> 15] :
        l \in { k \in SimObjectLists : Len(k) <= 1 }, h \in EvalHeights }

\* the state of run_simulation at line 32, with the positions dealt out
InitPar ==
    /\ pc = "workers"
    /\ args \in ParArgs
    /\ ret = None
    /\ LET rb == resolved_bounds(args.scene)
       IN  /\ x_grid = Arange(rb.value[1], rb.value[2] + args.grid_res_ft, args.grid_res_ft)
           /\ y_grid = Arange(rb.value[3], rb.value[4] + args.grid_res_ft, args.grid_res_ft)
    /\ exposure = None
    /\ times = generate_times(args.start, args.end, args.step_minutes).value
    /\ positions \in [1..Len(times) -> SunPositions]
    /\ idx = 0 /\ calls = 0
    /\ share \in [1..Len(times) -> Workers]
    /\ partial = [w \in Workers |-> Zeros(Len(y_grid), Len(x_grid))]
    /\ pending = 1..Len(times)

\* worker w runs the loop body on one of its pending positions
WorkerStep(w) ==
    /\ pc = "workers"
    /\ \E i \in pending :
         /\ share[i] = w
         /\ partial' = [partial EXCEPT ![w] =
                          LoopBody(partial[w], positions[i], args.scene, args.height_ft,
                                   x_grid, y_grid, args.step_minutes)]
         /\ pending' = pending \ {i}
    /\ UNCHANGED <<pc, args, ret, simvars, share>>

\* all workers are done: the partial grids are summed and returned
Reduce ==
    /\ pc = "workers"
    /\ pending = {}
    /\ exposure' = SumGrids(partial, NumWorkers)
    /\ ret' = <<x_grid, y_grid, exposure'>>
    /\ pc' = "reduced"
    /\ UNCHANGED <<args, x_grid, y_grid, times, positions, idx, calls, parvars>>

NextPar ==
    \/ \E w \in Workers : WorkerStep(w)
    \/ Reduce

SpecPar == InitPar /\ [][NextPar]_vars

\* ----------------------------------------------------- scene.py: load_scene
\* a raw object entry of the scene file: keys is the set of keys present;
\* shape_ok tells whether the footprint is a valid non-empty polygon, the
\* polyline a non-empty line, the center an [x, y] pair
RawEntry(keys, t, h, shape_ok, radius) ==
    [keys |-> keys, type |-> t, height_ft |-> h, shape_ok |-> shape_ok, radius_ft |-> radius]

\* str.lower on the type names of the model
Lower(t) == IF t = "Deck" THEN "deck" ELSE t

\* lines 117-131: [raised |-> TRUE] for a ValueError, else the SceneObject
parse_structure(data) ==
    IF "footprint" \notin data.keys THEN [raised |-> TRUE]
    ELSE IF ~data.shape_ok THEN [raised |-> TRUE]
    ELSE [raised |-> FALSE,
          value |-> SceneObject(data.type, data.height_ft, [polygon |-> "footprint"])]

\* lines 134-153
parse_fence(data) ==
    IF "polyline" \notin data.keys THEN [raised |-> TRUE]
    ELSE IF ~data.shape_ok THEN [raised |-> TRUE]
    ELSE [raised |-> FALSE,
          value |-> SceneObject(data.type, data.height_ft, [polygon |-> "buffered polyline"])]

\* lines 156-172; a missing radius_ft is 0.0
parse_tree(data) ==
    IF "center" \notin data.keys \/ ~data.shape_ok THEN [raised |-> TRUE]
    ELSE IF (IF "radius_ft" \in data.keys THEN data.radius_ft ELSE 0) <= 0
    THEN [raised |-> TRUE]
    ELSE [raised |-> FALSE,
          value |-> SceneObject(data.type, data.height_ft, [polygon |-> "circle"])]

\* lines 175-188
parse_object(entry) ==
    IF "type" \notin entry.keys \/ "height_ft" \notin entry.keys THEN [raised |-> TRUE]
    ELSE LET obj_type == Lower(entry.type)
         IN  IF obj_type \in {"structure", "deck"} THEN parse_structure(entry)
             ELSE IF obj_type = "fence" THEN parse_fence(entry)
             ELSE IF obj_type = "tree" THEN parse_tree(entry)
             ELSE [raised |-> TRUE]

\* lines 202-240: the raw file is empty, or a mapping with or without a
\* location and with an objects value that is a list or not
load_scene(raw) ==
    IF raw.empty THEN [raised |-> TRUE]
    ELSE IF ~raw.has_location THEN [raised |-> TRUE]
    ELSE IF ~raw.objects_is_list THEN [raised |-> TRUE]
    ELSE IF \E i \in 1..Len(raw.objects) : parse_object(raw.objects[i]).raised
    THEN [raised |-> TRUE]
    ELSE [raised |-> FALSE,
          value |-> Scene(0, [i \in 1..Len(raw.objects) |-> parse_object(raw.objects[i]).value],
                          None)]

ShapeKey(t) ==
    IF t = "fence" THEN "polyline" ELSE IF t = "tree" THEN "center" ELSE "footprint"

RawHeights == {-1, 0, 3}

RawEntries ==
    { RawEntry({"type", "height_ft", ShapeKey(t), "radius_ft"}, t, h, TRUE, 2) :
        t \in {"structure", "Deck", "fence", "tree"}, h \in RawHeights }
    \cup { RawEntry({"type", "height_ft", "footprint"}, "pool", 3, TRUE, 2),
           RawEntry({"height_ft", "footprint"}, "structure", 3, TRUE, 2),
           RawEntry({"type", "footprint"}, "structure", 3, TRUE, 2),
           RawEntry({"type", "height_ft"}, "structure", 3, TRUE, 2),
           RawEntry({"type", "height_ft", "footprint"}, "structure", 3, FALSE, 2),
           RawEntry({"type", "height_ft"}, "fence", 3, TRUE, 2),
           RawEntry({"type", "height_ft", "center"}, "tree", 3, TRUE, 2),
           RawEntry({"type", "height_ft", "center", "radius_ft"}, "tree", 3, TRUE, 0) }

RawScene(empty, has_location, is_list, objects) ==
    [empty |-> empty, has_location |-> has_location, objects_is_list |-> is_list,
     objects |-> objects]

RawScenes ==
    { RawScene(FALSE, TRUE, TRUE, l) : l \in UNION { [1..n -> RawEntries] : n \in 0..MaxObjs } }
    \cup { RawScene(TRUE, FALSE, FALSE, <<>>), RawScene(FALSE, FALSE, TRUE, <<>>),
           RawScene(FALSE, TRUE, FALSE, <<>>) }

InitLoad ==
    /\ pc = "call"
    /\ args \in RawScenes
    /\ ret = None
    /\ x_grid = None /\ y_grid = None /\ exposure = None /\ times = None
    /\ positions = None /\ idx = 0 /\ calls = 0
    /\ share = None /\ partial = None /\ pending = {}

CallLoadScene ==
    /\ pc = "call"
    /\ LET r == load_scene(args)
       IN  IF r.raised THEN pc' = "raised" /\ ret' = None
           ELSE pc' = "returned" /\ ret' = <<r.value>>
    /\ UNCHANGED <<args, simvars, parvars>>

NextLoad == CallLoadScene

SpecLoad == InitLoad /\ [][NextLoad]_vars

\* ------------------------------------------------- claims on is_point_shaded
Applied == pc = "returned"

Shaded == ret[1]

InsideSome(objects, p) == \E i \in 1..Len(objects) : Contains(objects[i].geometry, p)

TouchesSome(objects, p) ==
    \E i \in 1..Len(objects) :
        Contains(objects[i].geometry, p) \/ OnBoundary(objects[i].geometry, p)

\* obj blocks the line from the point to the sun: the ray cast TOWARD the sun
\* meets the footprint, and there the line is at a height within 0..height_ft
BlocksSunward(obj, origin, z_val, sun_dir) ==
    LET s == ray_intersection_distance(obj.geometry, origin, <<sun_dir[1], sun_dir[2]>>)
    IN  /\ s # None
        /\ 0 <= z_val * s[2] + s[1] * sun_dir[3]
        /\ z_val * s[2] + s[1] * sun_dir[3] <= obj.height_ft * s[2]

GeneralCase ==
    /\ Applied
    /\ args.sun_dir[3] > 0
    /\ args.sun_dir[1] # 0 \/ args.sun_dir[2] # 0
    /\ ~TouchesSome(args.objects, <<args.x, args.y>>)

\* C1 (as claimed): for a point outside all footprints and a sun with dz > 0
\* and a horizontal component, is_point_shaded is true iff some occluder
\* blocks the line from the point to the sun on the sun-ward side.
C1_ShadedIffBlockedSunward ==
    GeneralCase =>
        (Shaded <=> \E i \in 1..Len(args.objects) :
                       BlocksSunward(args.objects[i], <<args.x, args.y>>,
                                     args.z_ft, args.sun_dir))

ZenithCase ==
    /\ Applied
    /\ args.sun_dir[1] = 0 /\ args.sun_dir[2] = 0
    /\ args.sun_dir[3] > 0

\* C5 (as claimed): at zenith the point is shaded iff it is inside some
\* footprint, whatever the occluder's height.
C5_ZenithShadedIffInside ==
    ZenithCase => (Shaded <=> InsideSome(args.objects, <<args.x, args.y>>))

\* C5 (amended): at zenith the point is shaded iff it is inside the footprint
\* of some occluder whose height is at least the evaluation height.
C5_ZenithShadedIffUnderTallEnough ==
    ZenithCase =>
        (Shaded <=> \E i \in 1..Len(args.objects) :
                       /\ Contains(args.objects[i].geometry, <<args.x, args.y>>)
                       /\ args.objects[i].height_ft >= args.z_ft)

\* a point at zenith sun inside the footprint of short occluders only: sunlit
C5_Witness ==
    /\ ZenithCase
    /\ InsideSome(args.objects, <<args.x, args.y>>)
    /\ ~Shaded

\* ------------------------------------------------ claims on sun_vector_local
NorthSunFlat ==
    /\ pc = "returned"
    /\ args.alt_deg = 0 /\ args.az_deg = 0 /\ args.orientation_deg = 0

\* C6 (as claimed): sun_vector_local(0, 0, 0) is (0, 1, 0): a sun due north
\* lies along local +y.
C6_NorthSunAlongLocalY == NorthSunFlat => ret[1] = <<0, 125, 0>>

\* C6 (amended): sun_vector_local(0, 0, 0) is (1, 0, 0): with orientation 0 a
\* sun due north lies along local +x and has no local y component.
C6_NorthSunAlongLocalX == NorthSunFlat => ret[1] = <<125, 0, 0>>

C6_Witness == NorthSunFlat /\ ret[1][1] = 125 /\ ret[1][2] = 0

\* ------------------------------------------------- claims on run_simulation
CellPoint(c) == <<x_grid[c[2]], y_grid[c[1]]>>

\* the cell lies inside the footprint of an occluder at least as tall as the
\* evaluation height
Covered(c) ==
    \E i \in 1..Len(args.scene.objects) :
        /\ Contains(args.scene.objects[i].geometry, CellPoint(c))
        /\ args.scene.objects[i].height_ft >= args.height_ft

PositiveCount(n) == Cardinality({ i \in 1..n : positions[i].alt_deg > 0 })

\* C2: a grid cell inside the footprint of an occluder with height >=
\* evaluation height keeps exposure 0 throughout run_simulation, for every
\* timestamp and sun direction.
C2_CoveredCellsStayZero ==
    \A c \in DOMAIN exposure : Covered(c) => exposure[c] = 0

\* the run is over, the sun was up, a covered cell exists beside a sunlit one
C2_Witness ==
    /\ pc = "done"
    /\ \E c \in DOMAIN exposure : Covered(c)
    /\ \E c \in DOMAIN exposure : exposure[c] > 0

\* C3: with no occluders, after run_simulation every cell holds step_minutes
\* times the number of timestamps whose altitude is > 0.
C3_OpenSceneExposure ==
    (pc = "done" /\ Len(args.scene.objects) = 0) =>
        \A c \in DOMAIN exposure :
            exposure[c] = args.step_minutes * PositiveCount(Len(positions))

C3_Witness ==
    /\ pc = "done"
    /\ Len(args.scene.objects) = 0
    /\ DOMAIN exposure # {}
    /\ \E i \in 1..Len(positions) : positions[i].alt_deg > 0
    /\ \E i \in 1..Len(positions) : positions[i].alt_deg <= 0

\* C4: every exposure cell starts at 0, never decreases from one processed
\* timestamp to the next, and is at most step_minutes times the number of
\* timestamps with altitude > 0 processed so far.
C4_ExposureMonotoneAndBounded ==
    /\ [](\A c \in DOMAIN exposure :
            /\ idx = 0 => exposure[c] = 0
            /\ exposure[c] <= args.step_minutes * PositiveCount(idx))
    /\ [][\A c \in DOMAIN exposure : exposure'[c] >= exposure[c]]_vars

\* two positions processed, a cell sunlit at one of them and shaded at another
C4_Witness ==
    /\ pc = "loop"
    /\ idx >= 2
    /\ \E c \in DOMAIN exposure :
          0 < exposure[c] /\ exposure[c] < args.step_minutes * PositiveCount(idx)

InvalidExplicitBounds ==
    /\ args.scene.bounds # None
    /\ LET b == args.scene.bounds[1]
       IN  /\ \A v \in {b.x_min, b.x_max, b.y_min, b.y_max} : v # None
           /\ b.x_min[1] > b.x_max[1] \/ b.y_min[1] > b.y_max[1]

\* C7 (as claimed): with invalid explicit bounds (x_min > x_max or
\* y_min > y_max) run_simulation raises and never returns an exposure grid.
C7_InvalidBoundsNeverReturn == InvalidExplicitBounds => pc # "done"

BadTimeArgs == args.step_minutes <= 0 \/ args.start > args.end

\* C9: with step_minutes <= 0 or start > end, run_simulation raises before any
\* occlusion test and before any cell is incremented, and returns no grid.
C9_BadTimeArgsRaiseBeforeWork ==
    BadTimeArgs =>
        /\ pc \in {"setup", "times", "raised"}
        /\ calls = 0
        /\ ret = None
        /\ \A c \in DOMAIN exposure : exposure[c] = 0

\* generate_times raised after the grid was allocated
C9_Witness ==
    /\ BadTimeArgs
    /\ pc = "raised"
    /\ ~resolved_bounds(args.scene).raised
    /\ DOMAIN exposure # {}

\* ------------------------------------------------------ claims on load_scene
\* C8 (as claimed): every occluder of a Scene produced by load_scene has a
\* strictly positive height; an entry whose height_ft is zero or negative is
\* rejected with an error.
C8_LoadedHeightsPositive ==
    pc = "returned" =>
        \A i \in 1..Len(ret[1].objects) : ret[1].objects[i].height_ft > 0

\* ------------------------------------------- claims on the partitioned loop
\* C10: the sum of the partial grids, whatever the partition of the
\* timestamps among the workers and whatever the interleaving, is the grid the
\* sequential loop of run_simulation produces over all timestamps.
C10_PartitionedSumIsSequential ==
    pc = "reduced" =>
        exposure = SequentialExposure(Zeros(Len(y_grid), Len(x_grid)), positions, 1,
                                      args, x_grid, y_grid)

\* two workers each added sun to their partial grid, and the sum is returned
C10_Witness ==
    /\ pc = "reduced"
    /\ \E v, w \in Workers :
          /\ v # w
          /\ \E c \in DOMAIN exposure : partial[v][c] > 0 /\ partial[w][c] > 0
    /\ \E c, d \in DOMAIN exposure : exposure[c] # exposure[d]

\* ------------------------------------- claims on the nearest-crossing rule
CastRay == <<-args.sun_dir[1], -args.sun_dir[2]>>

\* the crossings of obj's footprint boundary by the cast ray, each as its
\* distance from the origin along the ray: s = Reach(p) / ReachDen, where
\* Reach is the Manhattan length of p - origin in scaled coordinates
Crossings(obj) == BoundaryIntersection(obj.geometry, <<args.x, args.y>>, CastRay)

Reach(p) ==
    LET den == NonZero(CastRay[1]) * NonZero(CastRay[2])
    IN  Abs(p[1] - den * args.x) + Abs(p[2] - den * args.y)

ReachDen ==
    NonZero(CastRay[1]) * NonZero(CastRay[2]) * (Abs(CastRay[1]) + Abs(CastRay[2]))

\* 0 <= evaluation_height - s * dz <= occluder height at the crossing p
HeightTestAt(obj, p) ==
    /\ 0 <= args.z_ft * ReachDen - Reach(p) * args.sun_dir[3]
    /\ args.z_ft * ReachDen - Reach(p) * args.sun_dir[3] <= obj.height_ft * ReachDen

QuickTest(obj) ==
    Contains(obj.geometry, <<args.x, args.y>>) /\ obj.height_ft >= args.z_ft

\* the height test passes at the nearest crossing of obj
NearestCrossingShades(obj) ==
    \E p \in Crossings(obj) :
        /\ \A q \in Crossings(obj) : Reach(p) <= Reach(q)
        /\ HeightTestAt(obj, p)

SunUpWithHorizontal ==
    /\ Applied
    /\ args.sun_dir[3] > 0
    /\ args.sun_dir[1] # 0 \/ args.sun_dir[2] # 0

\* C11: in the general case an occluder that fails the quick test shades the
\* point iff the height test 0 <= z - s*dz <= height passes at its nearest
\* boundary crossing s >= 0 along the cast ray; with no crossing it does not
\* shade, and farther crossings are never used.
C11_HeightTestAtNearestCrossingOnly ==
    SunUpWithHorizontal =>
        (Shaded <=> \E i \in 1..Len(args.objects) :
                       \/ QuickTest(args.objects[i])
                       \/ NearestCrossingShades(args.objects[i]))

\* the height test fails at the nearest crossing and would pass at a farther
\* one of the same occluder, and the point is reported sunlit
C11_Witness ==
    /\ SunUpWithHorizontal
    /\ ~Shaded
    /\ \E i \in 1..Len(args.objects) :
          \E p, q \in Crossings(args.objects[i]) :
              /\ Reach(p) < Reach(q)
              /\ ~HeightTestAt(args.objects[i], p)
              /\ HeightTestAt(args.objects[i], q)

====
